---- MODULE Spec2Model ----
(***************************************************************************)
(* Model of stash_file_watcher (main.go): the per-path debounce loop       *)
(* (dedupLoop / processOp), the event source it listens to, the startup    *)
(* enumeration (watchSubdirs), the scheduled scan of main, and the         *)
(* watch-root flag (watcher.Set).                                          *)
(***************************************************************************)
EXTENDS Integers, Sequences, FiniteSets, Bags, TLC

\* ------------------------------------------------------------------ bounds
MaxEvents == 3   \* filesystem operations performed by the environment
MaxQueue  == 2   \* events buffered between the event source and dedupLoop
MaxRoots  == 3   \* roots retained by watcher.Set

\* ------------------------------------------------------- filesystem layout
\* One watch root (registered by main before dedupLoop sees events), two
\* entries directly under it and one entry one level deeper.
Root  == "/r"
Paths == {"/r/a", "/r/b", "/r/a/c"}

Parent(p) == IF p = "/r/a/c" THEN "/r/a" ELSE Root

Children(p) == {q \in Paths : Parent(q) = p}

Ops == {"Create", "Write", "Remove", "Other"}

WR == {"Write", "Remove"}

\* dedupLoop's event; sep records that no timer of the path was armed when
\* the event was received (the quiet window of the previous event was over).
NoEvent == [name |-> "none", op |-> "none", dir |-> FALSE, sep |-> FALSE]

\* A timer: name and op are those of the event its callback closes over.
\* Of the events that reset it since it last fired: wr, one was a Write or
\* Remove; byDir, one was the Create of a directory; swr, the first was a
\* Write or Remove, received after the quiet window of a Write or Remove.
\* lastWR: the last event that reset it was a Write or Remove.
NoTimer == [name |-> "none", op |-> "none", armed |-> FALSE,
            wr |-> FALSE, swr |-> FALSE, byDir |-> FALSE, lastWR |-> FALSE]

TimerIds == 1..MaxEvents

VARIABLES
    fs,        \* path -> "none" | "file" | "dir"  (the real filesystem)
    watched,   \* directories registered with the event source (wat)
    queue,     \* wat.Events: events delivered but not yet received
    lpc,       \* position of dedupLoop
    cur,       \* dedupLoop's local `event`
    lt,        \* dedupLoop's local `t` (0 = none)
    mu,        \* holder of the mutex: "free" | "loop" | "cb"
    timers,    \* the map path -> timer (0 = no entry)
    tobj,      \* the time.Timer objects created by time.AfterFunc
    cbs,       \* bag of running expiry callbacks (goroutines in processOp)
    alive,     \* FALSE after log.Fatal
    nev,       \* filesystem operations performed so far
    nAcc,      \* path -> events that passed the operation filter and reset a timer
    nBurst,    \* path -> bursts begun (a reset that found no armed timer of the path)
    nCb,       \* path -> expiry callbacks started
    nNotif,    \* path -> sendScanRequest calls made by callbacks of the path
    hadCreate, \* path -> a Create event of the path was handled
    hadDir,    \* path -> a Create event of a directory at the path was handled
    nDiscard,  \* events dropped by the operation filter
    roots,     \* watcherFlag: the retained root list
    lastVal,   \* argument of the last watcher.Set call
    lastRes,   \* its outcome: "none" | "appended" | "ignored" | "error"
    wpc,       \* position of watchSubdirs: "list" | "add" | "done"
    wdir,      \* the directory watchSubdirs is about to list
    wstack,    \* its call stack: the listed directory and the entries left
    listFailed,\* directories whose listing failed
    tick       \* the scheduled-scan goroutine: "wait" | "sending"

wvars == <<wpc, wdir, wstack, listFailed>>

dvars == <<fs, watched, queue, lpc, cur, lt, mu, timers, tobj, cbs, alive,
           nev, nAcc, nBurst, nCb, nNotif, hadCreate, hadDir, nDiscard,
           wpc, wdir, wstack, listFailed, tick>>

svars == <<roots, lastVal, lastRes>>

vars == <<fs, watched, queue, lpc, cur, lt, mu, timers, tobj, cbs, alive,
          nev, nAcc, nBurst, nCb, nNotif, hadCreate, hadDir, nDiscard,
          roots, lastVal, lastRes, wpc, wdir, wstack, listFailed, tick>>

ghost == <<nAcc, nBurst, nCb, nNotif, hadCreate, hadDir, nDiscard>>

\* ------------------------------------------------------------ event source
\* The event source reports a change of p when p's parent directory is
\* registered; the root is registered by main (line 343).
Delivered(p) == IF Parent(p) = Root THEN TRUE ELSE Parent(p) \in watched

ParentIsDir(p) == IF Parent(p) = Root THEN TRUE ELSE fs[Parent(p)] = "dir"

Emit(p, op, isdir) ==
    IF Delivered(p)
    THEN queue' = Append(queue, [name |-> p, op |-> op, dir |-> isdir])
    ELSE queue' = queue

EnvGuard == alive /\ nev < MaxEvents /\ Len(queue) < MaxQueue

EnvFrame == /\ nev' = nev + 1
            /\ UNCHANGED <<lpc, cur, lt, mu, timers, tobj, cbs, alive>>
            /\ UNCHANGED ghost
            /\ UNCHANGED svars
            /\ UNCHANGED <<wvars, tick>>

CreateFile(p) ==
    /\ EnvGuard
    /\ fs[p] = "none" /\ ParentIsDir(p)
    /\ fs' = [fs EXCEPT ![p] = "file"]
    /\ Emit(p, "Create", FALSE)
    /\ UNCHANGED watched
    /\ EnvFrame

Mkdir(p) ==
    /\ EnvGuard
    /\ fs[p] = "none" /\ ParentIsDir(p)
    /\ fs' = [fs EXCEPT ![p] = "dir"]
    /\ Emit(p, "Create", TRUE)
    /\ UNCHANGED watched
    /\ EnvFrame

WriteFile(p) ==
    /\ EnvGuard
    /\ fs[p] = "file"
    /\ Emit(p, "Write", FALSE)
    /\ UNCHANGED <<fs, watched>>
    /\ EnvFrame

\* Removing a path drops its watch ("inode is gone = watcher is gone").
RemovePath(p) ==
    /\ EnvGuard
    /\ fs[p] # "none"
    /\ \A q \in Children(p) : fs[q] = "none"
    /\ fs' = [fs EXCEPT ![p] = "none"]
    /\ watched' = watched \ {p}
    /\ Emit(p, "Remove", FALSE)
    /\ EnvFrame

Chmod(p) ==
    /\ EnvGuard
    /\ fs[p] # "none"
    /\ Emit(p, "Other", FALSE)
    /\ UNCHANGED <<fs, watched>>
    /\ EnvFrame

\* ------------------------------------------------------------- dedupLoop
\* Variant of the filter that lets every operation through.
AcceptedAny(op) == op \in Ops

\* Variant of the filter that keeps directory creation out of the debounce.
AcceptedNoCreate(op) == op \in {"Write", "Remove"}

\* line 294: only Write, Remove and Create pass.
Accepted(op) == op \in {"Write", "Remove", "Create"}

ArmedFor(p) == \E t \in TimerIds : tobj[t].name = p /\ tobj[t].armed

FreeTimer == CHOOSE t \in TimerIds : tobj[t] = NoTimer /\
                 \A u \in TimerIds : u < t => tobj[u] # NoTimer

LoopFrame == /\ UNCHANGED <<fs, watched, cbs, alive, nev>>
             /\ UNCHANGED svars
             /\ UNCHANGED <<wvars, tick>>

Received(e) == [name |-> e.name, op |-> e.op, dir |-> e.dir,
                sep |-> ~ArmedFor(e.name)]

\* line 285-298: receive an event, drop it unless its operation passes.
LoopRecv ==
    /\ alive /\ lpc = "recv" /\ queue # <<>>
    /\ queue' = Tail(queue)
    /\ IF Accepted(Head(queue).op)
       THEN /\ cur' = Received(Head(queue))
            /\ lpc' = "lock1"
            /\ UNCHANGED nDiscard
       ELSE /\ nDiscard' = nDiscard + 1
            /\ UNCHANGED <<cur, lpc>>
    /\ UNCHANGED <<lt, mu, timers, tobj>>
    /\ UNCHANGED <<nAcc, nBurst, nCb, nNotif, hadCreate, hadDir>>
    /\ LoopFrame

\* line 300
LoopLock1 ==
    /\ alive /\ lpc = "lock1" /\ mu = "free"
    /\ mu' = "loop"
    /\ lpc' = "lookup"
    /\ UNCHANGED <<queue, cur, lt, timers, tobj>>
    /\ UNCHANGED ghost
    /\ LoopFrame

\* line 301-303
LoopLookup ==
    /\ alive /\ lpc = "lookup"
    /\ lt' = timers[cur.name]
    /\ mu' = "free"
    /\ lpc' = IF timers[cur.name] # 0 THEN "reset" ELSE "new"
    /\ UNCHANGED <<queue, cur, timers, tobj>>
    /\ UNCHANGED ghost
    /\ LoopFrame

\* line 305-306: a stopped timer whose callback closes over this event.
LoopNewTimer ==
    /\ alive /\ lpc = "new"
    /\ \E t \in TimerIds : tobj[t] = NoTimer
    /\ lt' = FreeTimer
    /\ tobj' = [tobj EXCEPT ![FreeTimer] =
                   [name |-> cur.name, op |-> cur.op, armed |-> FALSE,
                    wr |-> FALSE, swr |-> FALSE, byDir |-> FALSE,
                    lastWR |-> FALSE]]
    /\ lpc' = "lock2"
    /\ UNCHANGED <<queue, cur, mu, timers>>
    /\ UNCHANGED ghost
    /\ LoopFrame

\* line 308
LoopLock2 ==
    /\ alive /\ lpc = "lock2" /\ mu = "free"
    /\ mu' = "loop"
    /\ lpc' = "insert"
    /\ UNCHANGED <<queue, cur, lt, timers, tobj>>
    /\ UNCHANGED ghost
    /\ LoopFrame

\* line 309-310
LoopInsert ==
    /\ alive /\ lpc = "insert"
    /\ timers' = [timers EXCEPT ![cur.name] = lt]
    /\ mu' = "free"
    /\ lpc' = "reset"
    /\ UNCHANGED <<queue, cur, lt, tobj>>
    /\ UNCHANGED ghost
    /\ LoopFrame

\* line 313: t.Reset(waitFor) arms the timer, or pushes its deadline back
\* when it is armed; a timer that has already fired is armed again.
LoopReset ==
    /\ alive /\ lpc = "reset"
    /\ LET p  == cur.name
           nb == ~ArmedFor(p)
       IN /\ tobj' = [tobj EXCEPT ![lt] =
                  [@ EXCEPT !.armed = TRUE,
                            !.wr    = @ \/ cur.op \in WR,
                            !.swr   = IF tobj[lt].armed THEN @
                                      ELSE cur.sep /\ cur.op \in WR
                                           /\ tobj[lt].lastWR,
                            !.lastWR = cur.op \in WR,
                            !.byDir = @ \/ cur.dir]]
          /\ nAcc' = [nAcc EXCEPT ![p] = @ + 1]
          /\ nBurst' = [nBurst EXCEPT ![p] = IF nb THEN @ + 1 ELSE @]
          /\ hadCreate' = [hadCreate EXCEPT ![p] = @ \/ cur.op = "Create"]
          /\ hadDir' = [hadDir EXCEPT ![p] = @ \/ cur.dir]
    /\ lpc' = "recv"
    /\ cur' = NoEvent
    /\ lt' = 0
    /\ UNCHANGED <<queue, mu, timers, nCb, nNotif, nDiscard>>
    /\ LoopFrame

\* ------------------------------------------------- timer expiry, processOp
NewCb(t) == [t |-> t, pc |-> "run", wr |-> tobj[t].wr, swr |-> tobj[t].swr,
             dir |-> tobj[t].byDir, sent |-> FALSE, sawDir |-> FALSE]

Move(c, d) == (cbs (-) SetToBag({c})) (+) SetToBag({d})

CbFrame == /\ UNCHANGED <<queue, lpc, cur, lt, nev>>
           /\ UNCHANGED <<nAcc, nBurst, hadCreate, hadDir, nDiscard>>
           /\ UNCHANGED svars
           /\ UNCHANGED <<wvars, tick>>

\* The runtime runs the function of an armed timer in its own goroutine once
\* the quiet window has elapsed since the last Reset.
TimerFire(t) ==
    /\ alive /\ tobj[t].armed
    /\ tobj' = [tobj EXCEPT ![t] = [@ EXCEPT !.armed = FALSE, !.wr = FALSE,
                                             !.swr = FALSE, !.byDir = FALSE]]
    /\ cbs' = cbs (+) SetToBag({NewCb(t)})
    /\ nCb' = [nCb EXCEPT ![tobj[t].name] = @ + 1]
    /\ UNCHANGED <<fs, watched, mu, timers, alive, nNotif>>
    /\ CbFrame

\* Variant of the classification that sends the request although the stat
\* of a created path failed.
ClassifyNotifyOnStatError(op, st) ==
    IF op = "Create" /\ st = "dir" THEN "add" ELSE "sending"

\* Variant of the classification whose soft-error return goes to the delete
\* without taking the mutex.
ClassifySkipLock(op, st) ==
    IF op = "Create"
    THEN CASE st = "none" -> "delete"
           [] st = "file" -> "sending"
           [] OTHER       -> "add"
    ELSE "sending"

\* line 239-259, 272-274: the callback classifies the event it closed over.
\* A Create event is stat'ed; Write and Remove go straight to the request.
Classify(op, st) ==
    IF op = "Create"
    THEN CASE st = "none" -> "lock"
           [] st = "file" -> "sending"
           [] OTHER       -> "add"
    ELSE "sending"

CbClassify(c) ==
    /\ alive /\ BagIn(c, cbs) /\ c.pc = "run"
    /\ LET p  == tobj[c.t].name
           to == Classify(tobj[c.t].op, fs[p])
       IN /\ cbs' = Move(c, [c EXCEPT !.pc = to, !.sent = (to = "sending"),
                                          !.sawDir = (fs[p] = "dir")])
          /\ nNotif' = [nNotif EXCEPT ![p] = IF to = "sending" THEN @ + 1 ELSE @]
    /\ UNCHANGED <<fs, watched, mu, timers, tobj, alive, nCb>>
    /\ CbFrame

\* line 261-267: wat.Add; an error is fatal.
CbAdd(c) ==
    /\ alive /\ BagIn(c, cbs) /\ c.pc = "add"
    /\ fs[tobj[c.t].name] # "none"
    /\ watched' = watched \cup {tobj[c.t].name}
    /\ cbs' = Move(c, [c EXCEPT !.pc = "lock"])
    /\ UNCHANGED <<fs, mu, timers, tobj, alive, nCb, nNotif>>
    /\ CbFrame

\* Variant of the failed registration that logs the error and goes on.
CbAddSkip(c) ==
    /\ alive /\ BagIn(c, cbs) /\ c.pc = "add"
    /\ cbs' = Move(c, [c EXCEPT !.pc = "lock"])
    /\ UNCHANGED <<fs, watched, mu, timers, tobj, alive, nCb, nNotif>>
    /\ CbFrame

\* line 262-264: the path vanished, or the event source refuses the watch.
CbAddFatal(c) ==
    /\ alive /\ BagIn(c, cbs) /\ c.pc = "add"
    /\ alive' = FALSE
    /\ UNCHANGED <<fs, watched, mu, timers, tobj, cbs, nCb, nNotif>>
    /\ CbFrame

\* line 193-201: the request returns (answered, failed or timed out).
CbSent(c) ==
    /\ alive /\ BagIn(c, cbs) /\ c.pc = "sending"
    /\ cbs' = Move(c, [c EXCEPT !.pc = "lock"])
    /\ UNCHANGED <<fs, watched, mu, timers, tobj, alive, nCb, nNotif>>
    /\ CbFrame

\* line 278
CbLock(c) ==
    /\ alive /\ BagIn(c, cbs) /\ c.pc = "lock" /\ mu = "free"
    /\ mu' = "cb"
    /\ cbs' = Move(c, [c EXCEPT !.pc = "delete"])
    /\ UNCHANGED <<fs, watched, timers, tobj, alive, nCb, nNotif>>
    /\ CbFrame

\* Variant of the delete that leaves the entry in the map.
DeleteNothing(tm, name) == tm

\* Variant of the delete that clears the whole map.
DeleteAll(tm, name) == [q \in DOMAIN tm |-> 0]

\* line 279: delete(timers, event.Name)
DeleteEntry(tm, name) == [tm EXCEPT ![name] = 0]

\* A timer that is stopped, absent from the map, not held by dedupLoop and
\* without a running callback is unreachable: its slot is reclaimed.
Reclaim(tb, tm, bag) ==
    [t \in TimerIds |->
        IF /\ ~tb[t].armed
           /\ \A p \in Paths : tm[p] # t
           /\ lt # t
           /\ \A d \in BagToSet(bag) : d.t # t
        THEN NoTimer ELSE tb[t]]

\* line 279-280, then the callback's goroutine ends.
CbDelete(c) ==
    /\ alive /\ BagIn(c, cbs) /\ c.pc = "delete"
    /\ timers' = DeleteEntry(timers, tobj[c.t].name)
    /\ mu' = "free"
    /\ cbs' = cbs (-) SetToBag({c})
    /\ tobj' = Reclaim(tobj, timers', cbs')
    /\ UNCHANGED <<fs, watched, alive, nCb, nNotif>>
    /\ CbFrame

\* ------------------------------------------------------------ watchSubdirs
\* os.ReadDir returns the entries sorted by name.
DirOrder == <<"/r/a", "/r/a/c", "/r/b">>

IsListedDir(d, q) == Parent(q) = d /\ fs[q] = "dir"

\* line 204, 209-210: the subdirectories of d at the time of the listing.
Listing(d) == SelectSeq(DirOrder, LAMBDA q : IsListedDir(d, q))

\* line 208, 223: a call whose entries are used up returns to its caller.
RECURSIVE Unwind(_)
Unwind(st) ==
    IF st = <<>> THEN st
    ELSE IF st[Len(st)].todo = <<>> THEN Unwind(SubSeq(st, 1, Len(st) - 1))
    ELSE st

WsFrame == /\ UNCHANGED <<fs, queue, lpc, cur, lt, mu, timers, tobj, cbs, nev>>
           /\ UNCHANGED ghost
           /\ UNCHANGED svars
           /\ UNCHANGED tick

\* line 204, 208: the listing succeeds; the loop over its entries begins.
WsList ==
    /\ alive /\ wpc = "list"
    /\ IF wdir = Root THEN TRUE ELSE fs[wdir] = "dir"
    /\ LET st == Unwind(Append(wstack, [dir |-> wdir, todo |-> Listing(wdir)]))
       IN /\ wstack' = st
          /\ wpc' = IF st = <<>> THEN "done" ELSE "add"
    /\ wdir' = "none"
    /\ UNCHANGED <<watched, alive, listFailed>>
    /\ WsFrame

\* line 205-207: the listing fails (the directory vanished or cannot be
\* read) and the error is returned; neither the recursive call of line 219
\* nor the go statement of line 349 looks at it.
WsListFail ==
    /\ alive /\ wpc = "list"
    /\ listFailed' = listFailed \cup {wdir}
    /\ wstack' = Unwind(wstack)
    /\ wpc' = IF Unwind(wstack) = <<>> THEN "done" ELSE "add"
    /\ wdir' = "none"
    /\ UNCHANGED <<watched, alive>>
    /\ WsFrame

\* line 211-219: the next subdirectory is registered, then listed in turn.
WsAdd ==
    /\ alive /\ wpc = "add"
    /\ LET q == Head(wstack[Len(wstack)].todo)
       IN /\ fs[q] # "none"
          /\ watched' = watched \cup {q}
          /\ wdir' = q
    /\ wstack' = [wstack EXCEPT ![Len(wstack)].todo = Tail(@)]
    /\ wpc' = "list"
    /\ UNCHANGED <<alive, listFailed>>
    /\ WsFrame

\* line 213-216: the entry vanished, or the event source refuses the watch.
WsAddFatal ==
    /\ alive /\ wpc = "add"
    /\ alive' = FALSE
    /\ UNCHANGED <<watched, wpc, wdir, wstack, listFailed>>
    /\ WsFrame

\* ---------------------------------------------------------- scheduled scan
TickFrame == /\ UNCHANGED <<fs, watched, queue, lpc, cur, lt, mu, timers,
                            tobj, cbs, alive, nev>>
             /\ UNCHANGED ghost
             /\ UNCHANGED svars
             /\ UNCHANGED wvars

\* Variant of the scheduled scan that takes the timers mutex first.
TickFireLocked ==
    /\ alive /\ tick = "wait" /\ mu = "free"
    /\ tick' = "sending"
    /\ TickFrame

\* line 361-363: the ticker delivers a tick and the request is started.
TickFire ==
    /\ alive /\ tick = "wait"
    /\ tick' = "sending"
    /\ TickFrame

\* line 193-201: the request returns; the goroutine waits for the next tick.
TickSent ==
    /\ alive /\ tick = "sending"
    /\ tick' = "wait"
    /\ TickFrame

\* ------------------------------------------------------------ watcher.Set
\* Paths given on the command line are strings; a string is modelled as the
\* sequence of its characters so that prefixes and separators are what they
\* are in the program.
Separator == "/"

HasPrefix(s, pre) == Len(pre) <= Len(s) /\ SubSeq(s, 1, Len(pre)) = pre

\* The components of a path: the maximal runs of non-separator characters.
RECURSIVE Split(_, _)
Split(s, acc) ==
    IF s = <<>> THEN <<acc>>
    ELSE IF Head(s) = Separator THEN <<acc>> \o Split(Tail(s), <<>>)
    ELSE Split(Tail(s), Append(acc, Head(s)))

\* filepath.Clean's treatment of the components: empty and "." are dropped,
\* ".." removes the component before it (at the root it is dropped).
RECURSIVE Resolve(_, _, _)
Resolve(cs, out, rooted) ==
    IF cs = <<>> THEN out
    ELSE LET c == Head(cs)
         IN IF c = <<>> \/ c = <<".">>
            THEN Resolve(Tail(cs), out, rooted)
            ELSE IF c = <<".", ".">>
            THEN IF out # <<>> /\ out[Len(out)] # <<".", ".">>
                 THEN Resolve(Tail(cs), SubSeq(out, 1, Len(out) - 1), rooted)
                 ELSE IF rooted THEN Resolve(Tail(cs), out, rooted)
                 ELSE Resolve(Tail(cs), Append(out, c), rooted)
            ELSE Resolve(Tail(cs), Append(out, c), rooted)

RECURSIVE JoinSep(_)
JoinSep(cs) ==
    IF cs = <<>> THEN <<>>
    ELSE IF Len(cs) = 1 THEN cs[1]
    ELSE cs[1] \o <<Separator>> \o JoinSep(Tail(cs))

IsAbs(s) == s # <<>> /\ s[1] = Separator

\* filepath.Clean (line 42, 43)
Clean(s) ==
    LET cs == Resolve(Split(s, <<>>), <<>>, IsAbs(s))
    IN IF IsAbs(s) THEN <<Separator>> \o JoinSep(cs)
       ELSE IF cs = <<>> THEN <<".">> ELSE JoinSep(cs)

\* The working directory of the process.
Cwd == <<"/", "a">>

\* filepath.Abs (line 49)
Abs(s) == IF IsAbs(s) THEN Clean(s) ELSE Clean(Cwd \o <<Separator>> \o s)

\* The directories and files that exist when the flags are parsed.
SetDirs == { <<"/">>, <<"/", "a">>, <<"/", "a", "/", "b">>,
             <<"/", "a", "/", "b", "c">>, <<"/", "a", "/", "b", "/", "c">> }

SetFiles == { <<"/", "a", "/", "f">> }

\* Variant of the stat that leaves out the IsDir test.
StatKindNoDirTest(value) ==
    IF Abs(value) \in SetDirs \cup SetFiles THEN "dir" ELSE "none"

\* os.Stat (line 32-39)
StatKind(value) ==
    IF Abs(value) \in SetDirs THEN "dir"
    ELSE IF Abs(value) \in SetFiles THEN "file" ELSE "none"

\* The arguments tried for --watcher.
Inputs == { <<"/", "a">>, <<"/", "a", "/">>, <<"/", "a", "/", "b">>,
            <<"/", "a", "/", "b", "c">>, <<"/", "a", "/", "b", "/", "c">>,
            <<"b">>, <<"b", "c">>, <<".">>, <<"/", "a", "/", ".", ".", "/", "a", "/", "b">>,
            <<"/", "a", "/", "f">>, <<"/", "x">> }

\* line 42-43: the accepted root p covers the new value
Covers(p, value) ==
    /\ HasPrefix(Clean(value), Clean(p))
    /\ \/ Len(Clean(value)) = Len(Clean(p))
       \/ Clean(value)[Len(Clean(p)) + 1] = Separator

\* line 31-56
SetResult(w, value) ==
    IF StatKind(value) # "dir" THEN "error"
    ELSE IF \E i \in DOMAIN w : Covers(w[i], value) THEN "ignored"
    ELSE "appended"

SetCall(value) ==
    /\ Len(roots) < MaxRoots
    /\ lastVal' = value
    /\ lastRes' = SetResult(roots, value)
    /\ roots' = IF SetResult(roots, value) = "appended"
                THEN Append(roots, Abs(value)) ELSE roots
    /\ UNCHANGED dvars

\* ------------------------------------------------------------------ system
InitSet == /\ roots = <<>>
           /\ lastVal = <<>>
           /\ lastRes = "none"

\* Everything but the filesystem and the position of watchSubdirs.
InitEngine ==
    /\ watched = {}
    /\ queue = <<>>
    /\ lpc = "recv"
    /\ cur = NoEvent
    /\ lt = 0
    /\ mu = "free"
    /\ timers = [p \in Paths |-> 0]
    /\ tobj = [t \in TimerIds |-> NoTimer]
    /\ cbs = EmptyBag
    /\ alive = TRUE
    /\ nev = 0
    /\ nAcc = [p \in Paths |-> 0]
    /\ nBurst = [p \in Paths |-> 0]
    /\ nCb = [p \in Paths |-> 0]
    /\ nNotif = [p \in Paths |-> 0]
    /\ hadCreate = [p \in Paths |-> FALSE]
    /\ hadDir = [p \in Paths |-> FALSE]
    /\ nDiscard = 0
    /\ wstack = <<>>
    /\ listFailed = {}
    /\ tick = "wait"
    /\ InitSet

\* The root holds one file and no directory, and watchSubdirs has listed it
\* and returned before the first change of the filesystem.
Init ==
    /\ fs = [p \in Paths |-> IF p = "/r/b" THEN "file" ELSE "none"]
    /\ wpc = "done"
    /\ wdir = "none"
    /\ InitEngine

\* The trees found at startup: the one above, and one with a directory that
\* holds a directory.
StartLayouts ==
    { [p \in Paths |-> IF p = "/r/b" THEN "file" ELSE "none"],
      [p \in Paths |-> IF p = "/r/b" THEN "file" ELSE "dir"] }

\* line 341-349: dedupLoop and watchSubdirs have just been started.
InitStart ==
    /\ fs \in StartLayouts
    /\ wpc = "list"
    /\ wdir = Root
    /\ InitEngine

Next ==
    \/ \E p \in Paths : CreateFile(p)
    \/ \E p \in Paths : Mkdir(p)
    \/ \E p \in Paths : WriteFile(p)
    \/ \E p \in Paths : RemovePath(p)
    \/ \E p \in Paths : Chmod(p)
    \/ LoopRecv
    \/ LoopLock1
    \/ LoopLookup
    \/ LoopNewTimer
    \/ LoopLock2
    \/ LoopInsert
    \/ LoopReset
    \/ \E t \in TimerIds : TimerFire(t)
    \/ \E c \in BagToSet(cbs) : CbClassify(c)
    \/ \E c \in BagToSet(cbs) : CbAdd(c)
    \/ \E c \in BagToSet(cbs) : CbAddFatal(c)
    \/ \E c \in BagToSet(cbs) : CbSent(c)
    \/ \E c \in BagToSet(cbs) : CbLock(c)
    \/ \E c \in BagToSet(cbs) : CbDelete(c)

Spec == Init /\ [][Next]_vars

\* The debounce engine next to the scheduled scan.
NextTick ==
    \/ Next
    \/ TickFire
    \/ TickSent

SpecTick == Init /\ [][NextTick]_vars /\ WF_vars(TickFire) /\ WF_vars(TickSent)

\* The whole program from its start: the startup enumeration and the
\* scheduled scan run next to the debounce engine.
NextStart ==
    \/ Next
    \/ WsList
    \/ WsListFail
    \/ WsAdd
    \/ WsAddFatal
    \/ TickFire
    \/ TickSent

SpecStart == InitStart /\ [][NextStart]_vars

\* Flag parsing alone: any sequence of --watcher arguments.
NextSet == \E v \in Inputs : SetCall(v)

SpecSet == Init /\ [][NextSet]_vars

\* ------------------------------------------------------------- properties
CbSet == BagToSet(cbs)

CbName(c) == tobj[c.t].name

\* The callback has finished classifying its event.
Classified(c) == c.pc \in {"sending", "add", "lock", "delete"}

\* Nothing of path p is pending anywhere in the program.
Quiescent(p) ==
    /\ ~ArmedFor(p)
    /\ \A c \in CbSet : CbName(c) # p
    /\ lpc # "recv" => cur.name # p
    /\ \A i \in DOMAIN queue : queue[i].name # p

\* C1: a burst of Write/Remove events on one path (each event resets a timer
\* of the path while a timer of the path is still armed) causes exactly one
\* notification: never more notifications than bursts, and as many once
\* nothing of the path is pending.
C1_OneNotificationPerBurst ==
    \A p \in Paths :
        ~hadCreate[p] =>
            /\ nNotif[p] <= nBurst[p]
            /\ Quiescent(p) => nNotif[p] = nBurst[p]

\* C2: a Write/Remove event that arrives after the quiet window of the
\* previous Write/Remove event of its path has elapsed (no timer of the path
\* is armed) produces its own notification: the callback it causes sends the
\* request, also when it reuses the map entry of a callback still running.
C2_SeparatedEventNotifies ==
    /\ \A c \in CbSet : (c.swr /\ Classified(c)) => c.sent
    /\ \A p \in Paths : nCb[p] <= nAcc[p]

\* C3: a burst that contains the creation of a directory which still is a
\* directory when the window elapses sends no notification and proceeds to
\* register the directory, whatever the first event of the burst was.
C3_NewDirectoryRegistered ==
    \A c \in CbSet :
        (c.dir /\ c.sawDir /\ Classified(c)) =>
            ~c.sent /\ c.pc \in {"add", "lock", "delete"}

\* C4: bursts on a created non-directory path cause one notification each
\* and never register the path with the event source.
C4_NewFileOneNotification ==
    \A p \in Paths :
        (hadCreate[p] /\ ~hadDir[p]) =>
            /\ nNotif[p] <= nBurst[p]
            /\ \A c \in CbSet :
                   (CbName(c) = p /\ Classified(c) /\ ~c.sawDir) =>
                       c.pc # "add"

\* C5: a callback whose burst contains a Write or Remove event always sends
\* the notification, whatever else the burst contains.
C5_WriteRemoveNotifies ==
    \A c \in CbSet : (c.wr /\ Classified(c)) => c.sent

C9_Frame ==
    \A q \in Paths :
        /\ (lpc # "recv" /\ lpc' # lpc /\ cur.name # q)
            => /\ timers'[q] = timers[q]
               /\ \A t \in TimerIds :
                      (tobj[t].name = q \/ tobj'[t].name = q) => tobj'[t] = tobj[t]
        /\ (timers'[q] # timers[q] /\ timers'[q] = 0)
            => \E c \in CbSet : c.pc = "delete" /\ CbName(c) = q

LoopStep ==
    \/ LoopLock1 \/ LoopLookup \/ LoopNewTimer \/ LoopLock2 \/ LoopInsert
    \/ LoopReset

\* C9 non-blocking: unless a callback is inside its delete (the only place
\* where it holds the mutex), dedupLoop can take its next step and every
\* armed timer can expire, whatever the other callbacks are doing.
C9_NonBlocking ==
    (alive /\ \A c \in CbSet : c.pc # "delete") =>
        /\ mu # "cb"
        /\ (lpc # "recv" /\ (lpc = "new" => \E t \in TimerIds : tobj[t] = NoTimer))
              => ENABLED LoopStep
        /\ \A t \in TimerIds : tobj[t].armed => ENABLED TimerFire(t)

\* C9: debouncing is per path, and one accepted event on a path yields one
\* notification for that path.
C9_PerPathOneNotificationEach ==
    /\ [](C9_NonBlocking /\
          \A p \in Paths : (Quiescent(p) /\ nAcc[p] = 1) => nNotif[p] = 1)
    /\ [][C9_Frame]_vars

\* C9 (amended): debouncing is per path, and one accepted event on a path
\* yields one expiry callback for that path, which sends at most one
\* notification, and exactly one when the event is a Write or a Remove.
C9_PerPathOneCallbackEach ==
    /\ [](C9_NonBlocking /\
          \A p \in Paths : (Quiescent(p) /\ nAcc[p] = 1) =>
              /\ nCb[p] = 1
              /\ nNotif[p] <= 1
              /\ ~hadCreate[p] => nNotif[p] = 1)
    /\ [][C9_Frame]_vars

C9_Witness ==
    /\ \E p, q \in Paths :
          /\ p # q
          /\ nAcc[p] = 1 /\ nAcc[q] = 1
          /\ nNotif[p] = 1 /\ nNotif[q] = 1
          /\ Quiescent(p) /\ Quiescent(q)

\* C10: receiving an event whose operation is none of Create, Write, Remove
\* changes neither the map, nor a timer, nor the callbacks, the registered
\* directories or the notifications, and dedupLoop goes on to the next event.
C10_OtherDiscarded ==
    [][ (lpc = "recv" /\ queue # <<>> /\ queue' = Tail(queue)
            /\ Head(queue).op = "Other")
        => /\ UNCHANGED <<timers, tobj, cbs, watched, nNotif, nCb, mu, lt>>
           /\ lpc' = "recv"
      ]_vars

C10_Witness ==
    /\ nDiscard > 0
    /\ \E t \in TimerIds : tobj[t].armed

\* C7: no retained root is equal to, or below, another retained root.
Components(s) == Resolve(Split(s, <<>>), <<>>, TRUE)

IsUnder(x, y) ==
    /\ Len(Components(y)) <= Len(Components(x))
    /\ SubSeq(Components(x), 1, Len(Components(y))) = Components(y)

C7_NoNestedRoots ==
    \A i, j \in DOMAIN roots : i # j => ~IsUnder(roots[i], roots[j])

\* C8: watcher.Set ignores an existing directory exactly when an accepted
\* root equals its path or is followed in its path by a separator; it
\* appends it otherwise.
BoundaryPrefix(p, v) ==
    /\ HasPrefix(v, p)
    /\ Len(v) = Len(p) \/ v[Len(p) + 1] = Separator

C8_IgnoredIffUnderAcceptedRoot ==
    [][ (lastRes' \in {"appended", "ignored"})
        => /\ (lastRes' = "ignored") <=>
                 \E i \in DOMAIN roots : BoundaryPrefix(roots[i], Abs(lastVal'))
           /\ (lastRes' = "appended") <=> (roots' = Append(roots, Abs(lastVal')))
      ]_vars

\* A callback leaves its position c (one copy of c is gone from the bag).
Leaves(c) == CopiesIn(c, cbs') < CopiesIn(c, cbs)

\* The callback of a Create event whose stat failed: nothing was sent and no
\* registration is attempted.
SoftError(c) ==
    /\ tobj[c.t].op = "Create" /\ ~c.sent /\ ~c.sawDir
    /\ c.pc \in {"lock", "delete"}

\* C11: a callback whose stat of a created path fails counts no notification
\* and goes on to the delete; a returning (answered or failed) request does
\* the same; neither ends the process; the delete of a callback always
\* clears the entry of its path; and an event whose lookup finds no entry
\* gets a fresh timer.
C11_SoftErrorClearsEntry ==
    [][ /\ \A c \in CbSet :
            /\ (c.pc = "run" /\ Leaves(c) /\ tobj[c.t].op = "Create"
                    /\ fs[CbName(c)] = "none")
                => /\ nNotif' = nNotif /\ alive' /\ watched' = watched
                   /\ \E d \in BagToSet(cbs') :
                          d.t = c.t /\ d.pc = "lock" /\ ~d.sent
            /\ (c.pc = "sending" /\ Leaves(c))
                => /\ alive' /\ nNotif' = nNotif
                   /\ \E d \in BagToSet(cbs') : d.t = c.t /\ d.pc = "lock"
            /\ (c.pc = "delete" /\ Leaves(c))
                => timers'[CbName(c)] = 0 /\ mu' = "free" /\ alive'
        /\ (lpc = "lookup" /\ lpc' # lpc /\ timers[cur.name] = 0)
            => lpc' = "new"
        /\ (lpc = "new" /\ lpc' # lpc)
            => /\ tobj[lt'] = NoTimer
               /\ tobj'[lt'].name = cur.name /\ tobj'[lt'].op = cur.op
      ]_vars

\* A path that never was a directory, with two finished callbacks of which
\* one ended in the soft error and one sent the request, and no entry left.
C11_Witness ==
    \E p \in Paths :
        /\ alive /\ hadCreate[p] /\ ~hadDir[p]
        /\ nCb[p] = 2 /\ nNotif[p] = 1 /\ nBurst[p] = 2
        /\ timers[p] = 0 /\ Quiescent(p)

\* C12: the mutex is held exactly by dedupLoop between Lock and Unlock of
\* its lookup or its insert, or by the one callback between Lock and Unlock
\* of its delete; so its holder is never inside the request, the stat or the
\* registration; and the map is read and changed only by the holder.
C12_Deleting == {c \in CbSet : c.pc = "delete"}

C12_LockOnlyAroundTable ==
    /\ [](/\ mu \in {"free", "loop", "cb"}
          /\ (mu = "loop") <=> (lpc \in {"lookup", "insert"})
          /\ (mu = "cb") <=> (C12_Deleting # {})
          /\ Cardinality(C12_Deleting) <= 1
          /\ \A c \in C12_Deleting : CopiesIn(c, cbs) = 1
          /\ \A c \in CbSet : c.pc \in {"run", "sending", "add"} =>
                 (mu = "cb" => C12_Deleting \ {c} # {}))
    /\ [][ /\ (timers' # timers) =>
                \/ mu = "loop" /\ lpc = "insert" /\ lpc' = "reset"
                \/ mu = "cb" /\ \E c \in C12_Deleting : Leaves(c)
           /\ (lt' # lt /\ lpc' \in {"reset", "new"}) => mu = "loop"
           /\ (nNotif' # nNotif \/ watched' \ watched # {}) =>
                (mu' = mu /\ lpc' = lpc
                   /\ \E c \in CbSet : c.pc \in {"run", "add"} /\ Leaves(c))
         ]_vars

\* One callback is inside the request while another holds the mutex for its
\* delete.
C12_Witness ==
    mu = "cb" /\ \E c \in CbSet : c.pc = "sending"

\* Nothing is pending anywhere in the program: no event is queued or being
\* handled, no timer is armed, no callback runs, the enumeration is over.
Idle ==
    /\ queue = <<>> /\ lpc = "recv"
    /\ \A t \in TimerIds : ~tobj[t].armed
    /\ cbs = EmptyBag
    /\ wpc = "done"

\* C13: once the program has nothing left to do (and neither ended nor met
\* a listing error), every directory under the root that exists is
\* registered: no directory is left that only a further change of the
\* filesystem could bring to the program's notice.
C13_AllDirsRegisteredWhenIdle ==
    (alive /\ Idle /\ listFailed = {}) =>
        \A p \in Paths : fs[p] = "dir" => p \in watched

\* C14: a failed listing registers nothing of the directory's subtree and
\* returns to the caller, which goes on with the entries it has left; it
\* ends the process exactly when the directory is the watch root.
C14_ListingFailureFatalForRoot ==
    [][ (wpc = "list" /\ listFailed' # listFailed) =>
            /\ watched' = watched
            /\ wstack' = Unwind(wstack)
            /\ wpc' = IF Unwind(wstack) = <<>> THEN "done" ELSE "add"
            /\ alive' <=> (wdir # Root)
      ]_vars

\* C15: as long as the process lives the scheduled scan is started again
\* and again; whenever its goroutine waits, the next tick can start it,
\* whatever the mutex, the timers and the callbacks are doing; and starting
\* or finishing it leaves the map, the timers, the mutex, the callbacks and
\* dedupLoop as they were.
C15_ScheduledScanIndependent ==
    /\ []<>(~alive \/ tick = "sending")
    /\ []<>(~alive \/ tick = "wait")
    /\ []((alive /\ tick = "wait") => ENABLED TickFire)
    /\ []((alive /\ tick = "sending") => ENABLED TickSent)
    /\ [][ tick' # tick =>
              UNCHANGED <<timers, tobj, mu, cbs, lpc, cur, lt, queue, watched,
                          nNotif, nCb, alive>> ]_vars

\* A scheduled scan is being sent while a debounce callback is inside its
\* own request, another timer is armed and the mutex is held.
C15_Witness ==
    /\ tick = "sending"
    /\ \E c \in CbSet : c.pc = "sending"
    /\ \E t \in TimerIds : tobj[t].armed
    /\ mu # "free"

\* C16: watcher.Set answers with an error and leaves the root list as it
\* was exactly when its argument is no existing directory; every retained
\* root is an existing directory.
C16_OnlyExistingDirsAppended ==
    /\ [](\A i \in DOMAIN roots : roots[i] \in SetDirs)
    /\ [][ /\ (Abs(lastVal') \notin SetDirs) =>
                 (lastRes' = "error" /\ roots' = roots)
           /\ (lastRes' = "error") => Abs(lastVal') \notin SetDirs
           /\ (roots' # roots) =>
                 /\ Abs(lastVal') \in SetDirs
                 /\ roots' = Append(roots, Abs(lastVal'))
         ]_vars

\* After a root was accepted, a regular file was refused.
C16_Witness ==
    /\ Len(roots) >= 1
    /\ lastRes = "error"
    /\ Abs(lastVal) \in SetFiles

\* The timers of path p that are armed or have a callback running.
Pending(p) ==
    {t \in TimerIds :
        tobj[t].name = p /\ (tobj[t].armed \/ \E c \in CbSet : c.t = t)}

\* C17: each path has at most one timer that is armed or running its
\* callback, and that timer is the path's map entry.
C17_OneTimerPerPathInTable ==
    \A p \in Paths :
        /\ Cardinality(Pending(p)) <= 1
        /\ \A t \in Pending(p) : timers[p] = t

\* The scheduling the runtime guarantees: dedupLoop runs while it has an
\* event or the mutex is free, an armed timer expires once its window is
\* over, a callback's stat, registration and request (3 s timeout) return,
\* and a callback waiting for the mutex gets it.
Fairness ==
    /\ WF_vars(LoopRecv)
    /\ WF_vars(LoopStep)
    /\ \A t \in TimerIds : WF_vars(TimerFire(t))
    /\ WF_vars(\E c \in BagToSet(cbs) : CbClassify(c))
    /\ WF_vars(\E c \in BagToSet(cbs) : CbAdd(c) \/ CbAddFatal(c))
    /\ WF_vars(\E c \in BagToSet(cbs) : CbSent(c))
    /\ WF_vars(\E c \in BagToSet(cbs) : CbLock(c))
    /\ WF_vars(\E c \in BagToSet(cbs) : CbDelete(c))

SpecLive == Spec /\ Fairness

TableEmpty ==
    /\ \A p \in Paths : timers[p] = 0
    /\ \A t \in TimerIds : ~tobj[t].armed

\* C18: once the events have stopped, the map becomes and stays empty and
\* no timer stays armed (unless the process has ended); and an entry is
\* deleted only by a callback of its own path that is past its action.
C18_ReturnsToIdle ==
    /\ <>[](~alive \/ TableEmpty)
    /\ [][ \A p \in Paths :
              (timers[p] # 0 /\ timers'[p] = 0) =>
                  \E c \in CbSet : /\ c.pc = "delete" /\ CbName(c) = p
                                   /\ Leaves(c) ]_vars

\* The map is empty and nothing is armed or running after a path had two
\* callbacks.
C18_Witness ==
    /\ alive /\ TableEmpty /\ cbs = EmptyBag /\ lpc = "recv" /\ queue = <<>>
    /\ \E p \in Paths : nCb[p] >= 2 /\ nAcc[p] >= 2

\* C19: a registration either succeeds (the directory is registered and the
\* caller goes on) or ends the process; nothing but a failed registration
\* ends it; a vanished directory cannot be registered; and once the process
\* has ended no step is taken: no event is received, no timer expires, no
\* request is sent, no registration is tried again.
C19_RegistrationFailureFatal ==
    [][ /\ alive
        /\ \A c \in CbSet :
              (c.pc = "add" /\ Leaves(c)) =>
                  /\ alive' /\ fs[CbName(c)] # "none"
                  /\ CbName(c) \in watched'
        /\ (wpc = "add" /\ wpc' # wpc) =>
              /\ alive' /\ fs[Head(wstack[Len(wstack)].todo)] # "none"
              /\ Head(wstack[Len(wstack)].todo) \in watched'
        /\ (~alive') =>
              /\ wpc = "add" \/ \E c \in CbSet : c.pc = "add"
              /\ UNCHANGED <<watched, queue, lpc, timers, tobj, cbs, nNotif,
                             nCb, tick, wpc, wstack>>
      ]_vars

\* The process has ended on the registration of a directory discovered by a
\* live Create event, with an event still queued and a timer still armed.
C19_Witness ==
    /\ ~alive
    /\ wpc = "done"
    /\ \E c \in CbSet : c.pc = "add"
    /\ queue # <<>>
    /\ \E t \in TimerIds : tobj[t].armed

\* C20: per path, no more callbacks have started than qualifying events
\* were accepted, and no more notifications were sent than callbacks have
\* started; every timer and every callback belongs to a Create, Write or
\* Remove event of a path that had one accepted.
C20_NoNotificationStorm ==
    /\ \A p \in Paths : nCb[p] <= nAcc[p] /\ nNotif[p] <= nCb[p]
    /\ \A t \in TimerIds :
          tobj[t] # NoTimer => tobj[t].op \in {"Create", "Write", "Remove"}
    /\ \A t \in TimerIds : tobj[t].armed => nAcc[tobj[t].name] >= 1
    /\ \A c \in CbSet : nAcc[CbName(c)] >= 1 /\ nCb[CbName(c)] >= 1

\* Three accepted events of one path were coalesced into one callback and
\* one notification.
C20_Witness ==
    \E p \in Paths :
        /\ nAcc[p] = 3 /\ nCb[p] = 1 /\ nNotif[p] = 1
        /\ Quiescent(p) /\ timers[p] = 0

====
